---- MODULE Spec2Model ----
(***************************************************************************)
(* profitbricks_snapshot: an Ansible module that creates or removes a      *)
(* volume snapshot through the ProfitBricks client.                        *)
(*                                                                         *)
(* Two specifications:                                                     *)
(*   Spec      one run of main() against a provider whose listings and     *)
(*             request status are chosen by the environment;               *)
(*   SpecWait  one call of _wait_for_completion(profitbricks, promise,     *)
(*             wait_timeout, msg) against a clock and a provider whose     *)
(*             get_request answers are chosen by the environment           *)
(*             (SpecWaitFair adds the fairness of a running interpreter).  *)
(*                                                                         *)
(* Strings are sequences of one-character strings, so that the regular     *)
(* expression uuid_match is computed position by position.                 *)
(***************************************************************************)
EXTENDS Integers, Sequences, FiniteSets, TLC

\* ------------------------------------------------------------------ bounds

\* longest listing a provider call returns
MaxList == 2
\* largest wait_timeout argument tried
MaxTimeout == 11
\* a sleep(5) lasts 5 .. 5 + MaxOversleep seconds
MaxOversleep == 1
\* a get_request call lasts 0 .. MaxLatency seconds
MaxLatency == 1

\* ------------------------------------------------------- program constants

\* time.sleep(5)
SleepSeconds == 5

\* ----------------------------------------------------------------- strings

Rep(c, n) == [i \in 1..n |-> c]

\* the characters of the model's alphabet that \w accepts
WordChars == {"a", "b", "0", "1", "_"}

\* 8-4-4-4-12
UuidA == Rep("a", 8) \o <<"-">> \o Rep("a", 4) \o <<"-">> \o Rep("a", 4)
           \o <<"-">> \o Rep("a", 4) \o <<"-">> \o Rep("a", 12)
UuidB == Rep("0", 8) \o <<"-">> \o Rep("b", 4) \o <<"-">> \o Rep("1", 4)
           \o <<"-">> \o Rep("_", 4) \o <<"-">> \o Rep("b", 12)
\* a UUID followed by more text
UuidLong == UuidA \o <<" ", "b">>
\* 8_4-4-4-12: a word character where the first dash belongs
NearUuid == Rep("a", 8) \o <<"_">> \o Rep("a", 4) \o <<"-">> \o Rep("a", 4)
           \o <<"-">> \o Rep("a", 4) \o <<"-">> \o Rep("a", 12)
NameA == <<"a", "b">>
NameB == <<"b", " ", "1">>

\* [\w]{8}-[\w]{4}-[\w]{4}-[\w]{4}-[\w]{12}
DashPositions == {9, 14, 19, 24}
UuidLen == 36

\* uuid_match.match(s): the pattern anchored at the start of s only
uuid_match(s) ==
    /\ Len(s) >= UuidLen
    /\ \A i \in 1..UuidLen :
         IF i \in DashPositions THEN s[i] = "-" ELSE s[i] \in WordChars

\* --------------------------------------------------------------- parameters

\* a module parameter: absent (None) or a string
None == [given |-> FALSE, val |-> <<>>]
Str(s) == [given |-> TRUE, val |-> s]

\* a check for None alone: an empty string passes as given
py_not_NoneOnly(p) == ~p.given

\* Python's "not p" for p None or a string
py_not(p) == ~p.given \/ p.val = <<>>

ResourceParams == {None, Str(<<>>), Str(NameA), Str(NearUuid), Str(UuidA), Str(UuidLong)}
CredentialParams == {None, Str(<<>>), Str(NameB)}
StateParams == {"present", "absent", "restore"}

\* values tried for a parameter the selected state never reads
UnreadParams == {None, Str(NameA)}

ParamSets ==
    {p \in [datacenter : ResourceParams, volume : ResourceParams,
            snapshot : ResourceParams,
            subscription_user : CredentialParams,
            subscription_password : CredentialParams,
            wait : BOOLEAN, state : StateParams] :
        /\ p.state = "present" => p.snapshot \in UnreadParams
        /\ p.state = "absent" => p.datacenter \in UnreadParams /\ p.volume \in UnreadParams
        /\ p.state = "restore" => /\ p.snapshot \in UnreadParams
                                  /\ p.datacenter \in UnreadParams
                                  /\ p.volume \in UnreadParams}

\* ----------------------------------------------------------------- provider

ResourceIds == {UuidA, UuidB}
ResourceNames == {NameA, NameB}
Items == [id : ResourceIds, name : ResourceNames]
Listings == UNION {[1..n -> Items] : n \in 0..MaxList}

Statuses == {"QUEUED", "RUNNING", "DONE", "FAILED"}

Call(op, a1, a2) == [op |-> op, a1 |-> a1, a2 |-> a2]

VARIABLES
    params,      \* module.params
    pc,          \* position of main
    datacenter,  \* local of create_snapshot
    volume,      \* local of create_snapshot
    snapshot,    \* local of remove_snapshot
    dcList,      \* answer of list_datacenters / get_datacenter
    volList,     \* answer of list_volumes
    snapList,    \* answer of list_snapshots
    calls,       \* provider API calls made so far, in order
    msg,         \* msg of fail_json
    reqStatus,   \* provider-side status of the request the mutating call started
    wpc,         \* position of _wait_for_completion
    promise,     \* its argument
    wait_timeout,\* its argument, then the deadline (line 133 reuses the name)
    timeoutArg,  \* the argument as passed
    now,         \* time.time()
    observed     \* statuses get_request reported, in order

mainVars == <<params, pc, datacenter, volume, snapshot, dcList, volList, snapList,
              calls, msg, reqStatus>>
waitVars == <<wpc, promise, wait_timeout, timeoutArg, now, observed>>
vars == <<params, pc, datacenter, volume, snapshot, dcList, volList, snapList,
          calls, msg, reqStatus, wpc, promise, wait_timeout, timeoutArg, now, observed>>

\* ------------------------------------------------------- name resolution

\* the loop without its break, so that the last match wins
RECURSIVE ResolveFrom_Last(_, _, _)
ResolveFrom_Last(items, name, i) ==
    IF i > Len(items) THEN name
    ELSE LET rest == ResolveFrom_Last(items, name, i + 1)
         IN IF rest # name THEN rest
            ELSE IF name = items[i].name THEN items[i].id
            ELSE name

\* a lookup that yields nothing when no name matches
RECURSIVE ResolveFrom_Drop(_, _, _)
ResolveFrom_Drop(items, name, i) ==
    IF i > Len(items) THEN <<>>
    ELSE IF name = items[i].name THEN items[i].id
    ELSE ResolveFrom_Drop(items, name, i + 1)

\* for x in items: if name == x.name: name = x.id; break
RECURSIVE ResolveFrom(_, _, _)
ResolveFrom(items, name, i) ==
    IF i > Len(items) THEN name
    ELSE IF name = items[i].name THEN items[i].id
    ELSE ResolveFrom(items, name, i + 1)

\* the get_datacenter calls the datacenter loop makes, up to the match
RECURSIVE GetDatacenterCalls(_, _, _)
GetDatacenterCalls(items, name, i) ==
    IF i > Len(items) THEN <<>>
    ELSE <<Call("get_datacenter", items[i].id, <<>>)>>
         \o (IF name = items[i].name THEN <<>>
             ELSE GetDatacenterCalls(items, name, i + 1))

\* a volume looked up by name even when it is an ID
VolumeLookup_Always(v) == TRUE

\* line 163: if not (uuid_match.match(datacenter))
DatacenterLookup(d) == ~uuid_match(d)
\* line 172: if not (uuid_match.match(volume))
VolumeLookup(v) == ~uuid_match(v)
\* line 194: if not (uuid_match.match(snapshot))
SnapshotLookup(s) == ~uuid_match(s)

\* --------------------------------------------------------------------- main

\* "if not promise": None or an empty dict
NoPromise == [empty |-> TRUE, requestId |-> <<>>]

\* main never calls _wait_for_completion
MainIdleWait ==
    /\ wpc = "idle"
    /\ promise = NoPromise
    /\ wait_timeout = 0
    /\ timeoutArg = 0
    /\ now = 0
    /\ observed = <<>>

Init ==
    /\ params \in ParamSets
    /\ pc = "credentials"
    /\ datacenter = <<>>
    /\ volume = <<>>
    /\ snapshot = <<>>
    /\ dcList = <<>>
    /\ volList = <<>>
    /\ snapList = <<>>
    /\ calls = <<>>
    /\ msg = ""
    /\ reqStatus = "NONE"
    /\ MainIdleWait

FailJson(m) ==
    /\ pc' = "fail_json"
    /\ msg' = m

\* lines 219-229
MainCredentials ==
    /\ pc = "credentials"
    /\ IF py_not(params.subscription_user)
         THEN FailJson("subscription_user parameter is required")
       ELSE IF py_not(params.subscription_password)
         THEN FailJson("subscription_password parameter is required")
       ELSE pc' = "dispatch" /\ msg' = msg
    /\ UNCHANGED <<params, datacenter, volume, snapshot, dcList, volList, snapList,
                   calls, reqStatus>>
    /\ UNCHANGED waitVars

\* the two branches exchanged
DispatchTarget_Swapped(state) ==
    IF state = "absent" THEN "present_validate"
    ELSE IF state = "present" THEN "absent_validate"
    ELSE "returned"

\* lines 233, 242: if state == 'absent' ... elif state == 'present' ...
DispatchTarget(state) ==
    IF state = "absent" THEN "absent_validate"
    ELSE IF state = "present" THEN "present_validate"
    ELSE "returned"

\* lines 231-233, 242
MainDispatch ==
    /\ pc = "dispatch"
    /\ pc' = DispatchTarget(params.state)
    /\ UNCHANGED <<params, datacenter, volume, snapshot, dcList, volList, snapList,
                   calls, msg, reqStatus>>
    /\ UNCHANGED waitVars

\* lines 234-235
AbsentValidate ==
    /\ pc = "absent_validate"
    /\ IF py_not(params.snapshot)
         THEN FailJson("snapshot parameter is required")
       ELSE pc' = "remove_resolve" /\ msg' = msg
    /\ UNCHANGED <<params, datacenter, volume, snapshot, dcList, volList, snapList,
                   calls, reqStatus>>
    /\ UNCHANGED waitVars

\* lines 191-199
RemoveResolve ==
    /\ pc = "remove_resolve"
    /\ IF SnapshotLookup(params.snapshot.val)
         THEN \E l \in Listings :
                /\ snapList' = l
                /\ calls' = Append(calls, Call("list_snapshots", <<>>, <<>>))
                /\ snapshot' = ResolveFrom(l, params.snapshot.val, 1)
       ELSE /\ snapshot' = params.snapshot.val
            /\ UNCHANGED <<snapList, calls>>
    /\ pc' = "remove_call"
    /\ UNCHANGED <<params, datacenter, volume, dcList, volList, msg, reqStatus>>
    /\ UNCHANGED waitVars

\* line 201
RemoveCall ==
    /\ pc = "remove_call"
    /\ calls' = Append(calls, Call("remove_snapshot", snapshot, <<>>))
    /\ reqStatus' = "QUEUED"
    /\ pc' = "absent_exit"
    /\ UNCHANGED <<params, datacenter, volume, snapshot, dcList, volList, snapList, msg>>
    /\ UNCHANGED waitVars

\* lines 237-240
AbsentExit ==
    /\ pc = "absent_exit"
    /\ pc' = "exit_json"
    /\ UNCHANGED <<params, datacenter, volume, snapshot, dcList, volList, snapList,
                   calls, msg, reqStatus>>
    /\ UNCHANGED waitVars

\* lines 243-246
PresentValidate ==
    /\ pc = "present_validate"
    /\ IF py_not(params.datacenter)
         THEN FailJson("datacenter parameter is required")
       ELSE IF py_not(params.volume)
         THEN FailJson("volume parameter is required")
       ELSE pc' = "create_resolve_datacenter" /\ msg' = msg
    /\ UNCHANGED <<params, datacenter, volume, snapshot, dcList, volList, snapList,
                   calls, reqStatus>>
    /\ UNCHANGED waitVars

\* lines 157-169
CreateResolveDatacenter ==
    /\ pc = "create_resolve_datacenter"
    /\ IF DatacenterLookup(params.datacenter.val)
         THEN \E l \in Listings :
                /\ dcList' = l
                /\ calls' = Append(calls, Call("list_datacenters", <<>>, <<>>))
                              \o GetDatacenterCalls(l, params.datacenter.val, 1)
                /\ datacenter' = ResolveFrom(l, params.datacenter.val, 1)
       ELSE /\ datacenter' = params.datacenter.val
            /\ UNCHANGED <<dcList, calls>>
    /\ volume' = params.volume.val
    /\ pc' = "create_resolve_volume"
    /\ UNCHANGED <<params, snapshot, volList, snapList, msg, reqStatus>>
    /\ UNCHANGED waitVars

\* lines 171-177
CreateResolveVolume ==
    /\ pc = "create_resolve_volume"
    /\ IF VolumeLookup(volume)
         THEN \E l \in Listings :
                /\ volList' = l
                /\ calls' = Append(calls, Call("list_volumes", datacenter, <<>>))
                /\ volume' = ResolveFrom(l, volume, 1)
       ELSE UNCHANGED <<volume, volList, calls>>
    /\ pc' = "create_call"
    /\ UNCHANGED <<params, datacenter, snapshot, dcList, snapList, msg, reqStatus>>
    /\ UNCHANGED waitVars

\* line 179
CreateCall ==
    /\ pc = "create_call"
    /\ calls' = Append(calls, Call("create_snapshot", datacenter, volume))
    /\ reqStatus' = "QUEUED"
    /\ pc' = "present_exit"
    /\ UNCHANGED <<params, datacenter, volume, snapshot, dcList, volList, snapList, msg>>
    /\ UNCHANGED waitVars

\* lines 248-251
PresentExit ==
    /\ pc = "present_exit"
    /\ pc' = "exit_json"
    /\ UNCHANGED <<params, datacenter, volume, snapshot, dcList, volList, snapList,
                   calls, msg, reqStatus>>
    /\ UNCHANGED waitVars

\* the provider works on the request on its own
ProviderProgress ==
    /\ \/ reqStatus = "QUEUED" /\ reqStatus' = "RUNNING"
       \/ reqStatus = "RUNNING" /\ reqStatus' \in {"DONE", "FAILED"}
    /\ UNCHANGED <<params, pc, datacenter, volume, snapshot, dcList, volList, snapList,
                   calls, msg>>
    /\ UNCHANGED waitVars

Next ==
    \/ MainCredentials
    \/ MainDispatch
    \/ AbsentValidate
    \/ RemoveResolve
    \/ RemoveCall
    \/ AbsentExit
    \/ PresentValidate
    \/ CreateResolveDatacenter
    \/ CreateResolveVolume
    \/ CreateCall
    \/ PresentExit
    \/ ProviderProgress

Spec == Init /\ [][Next]_vars

\* ------------------------------------------------------ _wait_for_completion

Promises == {NoPromise, [empty |-> FALSE, requestId |-> UuidB]}
WaitTimeouts == (0 - 1)..MaxTimeout

MainIdle ==
    /\ params = [datacenter |-> None, volume |-> None, snapshot |-> None,
                 subscription_user |-> None, subscription_password |-> None,
                 wait |-> TRUE, state |-> "present"]
    /\ pc = "idle"
    /\ datacenter = <<>>
    /\ volume = <<>>
    /\ snapshot = <<>>
    /\ dcList = <<>>
    /\ volList = <<>>
    /\ snapList = <<>>
    /\ calls = <<>>
    /\ msg = ""
    /\ reqStatus = "QUEUED"

InitWait ==
    /\ MainIdle
    /\ wpc = "entry"
    /\ promise \in Promises
    /\ timeoutArg \in WaitTimeouts
    /\ wait_timeout = timeoutArg
    /\ now \in {0, 3}
    /\ observed = <<>>

\* lines 132-133
WaitEntry ==
    /\ wpc = "entry"
    /\ IF promise.empty
         THEN wpc' = "returned" /\ UNCHANGED wait_timeout
       ELSE wait_timeout' = now + wait_timeout /\ wpc' = "loop_test"
    /\ UNCHANGED <<promise, timeoutArg, now, observed>>
    /\ UNCHANGED mainVars

\* the comparison made inclusive
LoopCondition_Inclusive(deadline, t) == deadline >= t

\* while wait_timeout > time.time()
LoopCondition(deadline, t) == deadline > t

\* lines 134, 145
WaitLoopTest ==
    /\ wpc = "loop_test"
    /\ wpc' = IF LoopCondition(wait_timeout, now) THEN "sleep" ELSE "raised_timeout"
    /\ UNCHANGED <<promise, wait_timeout, timeoutArg, now, observed>>
    /\ UNCHANGED mainVars

\* line 135
WaitSleep ==
    /\ wpc = "sleep"
    /\ \E d \in SleepSeconds..(SleepSeconds + MaxOversleep) : now' = now + d
    /\ wpc' = "poll"
    /\ UNCHANGED <<promise, wait_timeout, timeoutArg, observed>>
    /\ UNCHANGED mainVars

\* any status that is not QUEUED or FAILED taken for completion
PollOutcome_ReturnOnRunning(status) ==
    IF status \in {"DONE", "RUNNING"} THEN "returned"
    ELSE IF status = "FAILED" THEN "raised_failed"
    ELSE "loop_test"

\* the FAILED branch left out: the loop polls on until the deadline
PollOutcome_IgnoreFailed(status) ==
    IF status = "DONE" THEN "returned"
    ELSE "loop_test"

\* lines 140-143: where the loop body goes on the status get_request reported
PollOutcome(status) ==
    IF status = "DONE" THEN "returned"
    ELSE IF status = "FAILED" THEN "raised_failed"
    ELSE "loop_test"

\* lines 136-143
WaitPoll ==
    /\ wpc = "poll"
    /\ \E s \in Statuses, e \in 0..MaxLatency :
         /\ now' = now + e
         /\ observed' = Append(observed, s)
         /\ wpc' = PollOutcome(s)
    /\ UNCHANGED <<promise, wait_timeout, timeoutArg>>
    /\ UNCHANGED mainVars

NextWait ==
    \/ WaitEntry
    \/ WaitLoopTest
    \/ WaitSleep
    \/ WaitPoll

SpecWait == InitWait /\ [][NextWait]_vars

\* the interpreter keeps executing the function until it returns or raises
SpecWaitFair == InitWait /\ [][NextWait]_vars /\ WF_vars(NextWait)

\* ------------------------------------------------------------------ helpers

CallsOf(op) == {i \in DOMAIN calls : calls[i].op = op}
Mutating == CallsOf("create_snapshot") \union CallsOf("remove_snapshot")
HasMatch(items, name) == \E i \in DOMAIN items : items[i].name = name
FirstMatchId(items, name) ==
    items[CHOOSE i \in DOMAIN items :
            /\ items[i].name = name
            /\ \A j \in 1..(i - 1) : items[j].name # name].id
Missing(p) == p = None \/ p = Str(<<>>)
CredentialsGiven ==
    ~Missing(params.subscription_user) /\ ~Missing(params.subscription_password)
NonTerminal(s) == s \notin {"DONE", "FAILED"}
CeilDiv(a, b) == (a + b - 1) \div b
WaitFinal == {"returned", "raised_failed", "raised_timeout"}
ObservedDone == Len(observed) > 0 /\ observed[Len(observed)] = "DONE"

\* -------------------------------------------------------------------- C1

\* C1 (as claimed): with wait true, main reaches exit_json only after the
\* request started by the mutating call has been observed with status DONE.
C1_WaitBeforeExit ==
    (pc = "exit_json" /\ params.wait) => ObservedDone

\* -------------------------------------------------------------------- C2

\* C2: with a non-empty promise, _wait_for_completion returns normally only
\* when the last get_request poll reported DONE; hence never with only
\* non-terminal statuses observed, and never after the deadline without DONE.
C2_ReturnOnlyOnDone ==
    (wpc = "returned" /\ ~promise.empty) =>
        /\ ObservedDone
        /\ \A i \in 1..(Len(observed) - 1) : NonTerminal(observed[i])

\* a normal return whose DONE poll came back after the deadline, following
\* a poll that reported a non-terminal status
C2_Witness ==
    /\ wpc = "returned"
    /\ ~promise.empty
    /\ Len(observed) = 2
    /\ observed[1] = "RUNNING"
    /\ observed[2] = "DONE"
    /\ now > wait_timeout

\* -------------------------------------------------------------------- C3

PollBound == IF timeoutArg <= 0 THEN 0 ELSE CeilDiv(timeoutArg, SleepSeconds)

C3_Bounded ==
    /\ Len(observed) <= PollBound
    /\ promise.empty => Len(observed) = 0
    /\ wpc = "raised_timeout" =>
         /\ now >= wait_timeout
         /\ \A i \in DOMAIN observed : NonTerminal(observed[i])
    /\ wpc = "raised_failed" => observed[Len(observed)] = "FAILED"
    /\ (/\ wpc \in WaitFinal
        /\ ~promise.empty
        /\ \A i \in DOMAIN observed : NonTerminal(observed[i]))
         => wpc = "raised_timeout"

\* C3: every call of _wait_for_completion ends, after at most
\* ceil(wait_timeout / 5) polls (none when wait_timeout <= 0), in a normal
\* return, the 'Request failed' exception or the 'Timed out' exception, and
\* in the last whenever the deadline passes with only non-terminal statuses.
C3_Terminates == <>(wpc \in WaitFinal) /\ []C3_Bounded

\* a timeout reached with exactly ceil(11 / 5) = 3 polls
C3_Witness ==
    /\ wpc = "raised_timeout"
    /\ timeoutArg = 11
    /\ Len(observed) = 3

\* -------------------------------------------------------------------- C4

\* C4: a parameter that is not UUID-shaped and names a listed resource is
\* replaced by the id of the first listed resource of that name, and the
\* volume listing is the one of the resolved datacenter identifier.
C4_FirstMatch ==
    /\ \A i \in CallsOf("create_snapshot") :
         /\ (~uuid_match(params.datacenter.val) /\ HasMatch(dcList, params.datacenter.val))
              => calls[i].a1 = FirstMatchId(dcList, params.datacenter.val)
         /\ (~uuid_match(params.volume.val) /\ HasMatch(volList, params.volume.val))
              => calls[i].a2 = FirstMatchId(volList, params.volume.val)
    /\ \A i \in CallsOf("list_volumes") :
         (~uuid_match(params.datacenter.val) /\ HasMatch(dcList, params.datacenter.val))
              => calls[i].a1 = FirstMatchId(dcList, params.datacenter.val)
    /\ \A i \in CallsOf("remove_snapshot") :
         (~uuid_match(params.snapshot.val) /\ HasMatch(snapList, params.snapshot.val))
              => calls[i].a1 = FirstMatchId(snapList, params.snapshot.val)

\* create_snapshot issued after both names matched two listed resources each
C4_Witness ==
    /\ CallsOf("create_snapshot") # {}
    /\ CallsOf("list_volumes") # {}
    /\ Len(dcList) = 2 /\ dcList[1].name = NameA /\ dcList[2].name = NameA
    /\ dcList[1].id # dcList[2].id
    /\ Len(volList) = 2 /\ volList[1].name = NameA /\ volList[2].name = NameA
    /\ volList[1].id # volList[2].id
    /\ params.datacenter = Str(NameA)
    /\ params.volume = Str(NameA)

\* -------------------------------------------------------------------- C5

FirstMissing ==
    IF Missing(params.subscription_user) THEN "subscription_user"
    ELSE IF Missing(params.subscription_password) THEN "subscription_password"
    ELSE IF params.state = "absent" /\ Missing(params.snapshot) THEN "snapshot"
    ELSE IF params.state = "present" /\ Missing(params.datacenter) THEN "datacenter"
    ELSE IF params.state = "present" /\ Missing(params.volume) THEN "volume"
    ELSE "none"

RequiredMsg(name) ==
    CASE name = "subscription_user" -> "subscription_user parameter is required"
      [] name = "subscription_password" -> "subscription_password parameter is required"
      [] name = "snapshot" -> "snapshot parameter is required"
      [] name = "datacenter" -> "datacenter parameter is required"
      [] name = "volume" -> "volume parameter is required"
      [] OTHER -> ""

C7_IdAsIs ==
    /\ uuid_match(params.datacenter.val) =>
         /\ CallsOf("list_datacenters") = {}
         /\ CallsOf("get_datacenter") = {}
         /\ \A i \in CallsOf("create_snapshot") : calls[i].a1 = params.datacenter.val
         /\ \A i \in CallsOf("list_volumes") : calls[i].a1 = params.datacenter.val
    /\ uuid_match(params.volume.val) =>
         /\ CallsOf("list_volumes") = {}
         /\ \A i \in CallsOf("create_snapshot") : calls[i].a2 = params.volume.val
    /\ uuid_match(params.snapshot.val) =>
         /\ CallsOf("list_snapshots") = {}
         /\ \A i \in CallsOf("remove_snapshot") : calls[i].a1 = params.snapshot.val

\* create_snapshot reported with both identifiers given as UUIDs, one of them
\* with trailing text, and not one provider call before it
C7_Witness ==
    /\ pc = "exit_json"
    /\ params.datacenter = Str(UuidLong)
    /\ params.volume = Str(UuidA)
    /\ calls = <<Call("create_snapshot", UuidLong, UuidA)>>

\* -------------------------------------------------------------------- C8

\* C8: the first FAILED status ends the wait with the 'Request failed'
\* exception: it is the last status observed, nothing follows it, and the
\* call neither returns normally nor times out.
C8_FailedEndsWait ==
    \A i \in DOMAIN observed :
        observed[i] = "FAILED" => i = Len(observed) /\ wpc = "raised_failed"

\* FAILED reported well before the deadline, after one non-terminal poll
C8_Witness ==
    /\ wpc = "raised_failed"
    /\ Len(observed) = 2
    /\ observed[2] = "FAILED"
    /\ now < wait_timeout

\* -------------------------------------------------------------------- C9

\* C9 (as claimed): with both credentials given, main never ends without
\* exit_json or fail_json, whatever the state parameter is.
C9_AlwaysReports ==
    CredentialsGiven => pc # "returned"

\* ------------------------------------------------------------------- C10

Unresolved(items, p) == ~Missing(p) /\ ~uuid_match(p.val) /\ ~HasMatch(items, p.val)

\* C10: a name that is not UUID-shaped and that no listed resource has is
\* forwarded unchanged: the run does not fail or stop on it, the mutating
\* call carries the raw name, and the volume listing made for an unresolved
\* datacenter is list_volumes(raw name).
C10_ForwardsRawName ==
    /\ \A i \in CallsOf("create_snapshot") :
         /\ Unresolved(dcList, params.datacenter) => calls[i].a1 = params.datacenter.val
         /\ Unresolved(volList, params.volume) => calls[i].a2 = params.volume.val
    /\ \A i \in CallsOf("remove_snapshot") :
         Unresolved(snapList, params.snapshot) => calls[i].a1 = params.snapshot.val
    /\ \A i \in CallsOf("list_volumes") :
         Unresolved(dcList, params.datacenter) => calls[i].a1 = params.datacenter.val
    /\ (CallsOf("list_datacenters") # {} /\ Unresolved(dcList, params.datacenter)) =>
         /\ pc \notin {"fail_json", "returned"}
         /\ (pc \in {"create_call", "present_exit", "exit_json"}
             /\ ~uuid_match(params.volume.val)) => CallsOf("list_volumes") # {}
         /\ pc \in {"present_exit", "exit_json"} => CallsOf("create_snapshot") # {}
    /\ (CallsOf("list_volumes") # {} /\ Unresolved(volList, params.volume)) =>
         /\ pc \notin {"fail_json", "returned"}
         /\ pc \in {"present_exit", "exit_json"} => CallsOf("create_snapshot") # {}
    /\ (CallsOf("list_snapshots") # {} /\ Unresolved(snapList, params.snapshot)) =>
         /\ pc \notin {"fail_json", "returned"}
         /\ pc \in {"absent_exit", "exit_json"} => CallsOf("remove_snapshot") # {}

\* create_snapshot reported for a datacenter and a volume nothing listed has
C10_Witness ==
    /\ pc = "exit_json"
    /\ params.datacenter = Str(NearUuid)
    /\ params.volume = Str(NameA)
    /\ Len(dcList) = MaxList
    /\ Len(volList) = MaxList
    /\ calls[Len(calls)] = Call("create_snapshot", NearUuid, NameA)
    /\ \E i \in CallsOf("list_volumes") : calls[i].a1 = NearUuid

====
